---------------------------- MODULE Spec2Model ----------------------------
(***************************************************************************)
(* A model of video_tracker.py: the VideoTracker watch-history store, its  *)
(* playback dispatcher, the folder listing and the interactive main().     *)
(*                                                                         *)
(* File names and paths are sequences of one-character strings, so that    *)
(* os.path.join, basename, isabs and splitext are computed as posixpath    *)
(* computes them.  The tracker file is a record describing its bytes: how  *)
(* they decode, the JSON value they hold and their length.                 *)
(***************************************************************************)
EXTENDS Naturals, Integers, Sequences, FiniteSets, TLC

(***************************************************************************)
(* Bounds of the model.                                                    *)
(***************************************************************************)
\* the clock datetime.now() reads takes the values 0..MaxClock
MaxClock == 1

\* number of API calls one store makes in a behaviour of Spec
MaxCalls == 2

(***************************************************************************)
(* Paths.                                                                  *)
(***************************************************************************)
Folder == <<"/", "v">>

TrackerName == <<".", "t", "r", "a", "c", "k", "e", "r", ".", "j", "s", "o", "n">>

NameA == <<"a", ".", "m", "p", "4">>

NameB == <<"b", "b", ".", "M", "K", "V">>

NameT == <<"n", ".", "t", "x", "t">>

NameH == <<".", "m", "p", "4">>

NameD == <<"d", ".", "a", "v", "i">>

NameS == <<"s">>

NameC == <<"c", ".", "m", "o", "v">>

NameX == <<"x", ".", "m", "p", "4">>

\* the largest index of character c in p, 0 when there is none (str.rfind)
RFind(p, c) ==
    LET hits == {i \in 1..Len(p) : p[i] = c}
    IN  IF hits = {} THEN 0 ELSE CHOOSE i \in hits : \A j \in hits : j <= i

isabs(p) == Len(p) > 0 /\ p[1] = "/"

join(a, b) ==
    IF isabs(b) THEN b
    ELSE IF a = <<>> \/ a[Len(a)] = "/" THEN a \o b
    ELSE a \o <<"/">> \o b

basename(p) == SubSeq(p, RFind(p, "/") + 1, Len(p))

dirname(p) ==
    LET i == RFind(p, "/")
    IN  IF i <= 1 THEN SubSeq(p, 1, i) ELSE SubSeq(p, 1, i - 1)

\* os.path.splitext(p)[1]: the text from the last dot on, unless that dot
\* is before the last separator or only dots precede it in the file name
splitext_ext(p) ==
    LET sepIndex == RFind(p, "/")
        dotIndex == RFind(p, ".")
    IN  IF dotIndex > sepIndex
           /\ \E i \in (sepIndex + 1)..(dotIndex - 1) : p[i] # "."
        THEN SubSeq(p, dotIndex, Len(p))
        ELSE <<>>

lower_char(c) ==
    CASE c = "M" -> "m"
      [] c = "K" -> "k"
      [] c = "V" -> "v"
      [] OTHER   -> c

lower(p) == [i \in 1..Len(p) |-> lower_char(p[i])]

video_extensions ==
    { <<".", "m", "p", "4">>, <<".", "a", "v", "i">>, <<".", "m", "k", "v">>,
      <<".", "m", "o", "v">>, <<".", "w", "m", "v">> }

tracking_file == join(Folder, TrackerName)

(***************************************************************************)
(* The file system: the paths that exist, other than the tracker file.     *)
(***************************************************************************)
PathOut == <<"/", "o", "/">> \o NameA

SubDir == join(Folder, NameS)

FsUniverse ==
    { Folder, join(Folder, NameA), join(Folder, NameB), join(Folder, NameT),
      join(Folder, NameH), join(Folder, NameD), SubDir, join(SubDir, NameC),
      PathOut }

\* the entries that are directories; every other entry is a regular file
Directories == { Folder, join(Folder, NameD), SubDir }

\* an entry exists only inside an existing directory
WellFormedFs(f) ==
    \A p \in f : dirname(p) \in FsUniverse => dirname(p) \in f

VARIABLES
    fs,         \* the set of existing paths (the tracker file excepted)
    disk,       \* the tracker file
    now,        \* the clock
    history,    \* history[s]: self.history of store s
    pc,         \* pc[s]: where store s is
    ret,        \* ret[s]: what the last call of store s returned
    out,        \* out[s]: what the last call of store s printed
    calls,      \* calls[s]: the calls store s made
    play,       \* play[s]: the play_video call in progress or last finished
    trk,        \* trk[s]: the track_video call in progress or last finished
    listed,     \* what list_videos returned
    lastWriter, \* the store whose write reached the tracker file last
    mainst      \* the state of main()

vars == <<fs, disk, now, history, pc, ret, out, calls, play, trk, listed,
          lastWriter, mainst>>


Stores == {1, 2}

(***************************************************************************)
(* Watch records, the history mapping and the bytes of the tracker file.   *)
(***************************************************************************)
\* timestamp=None, the default of track_video's parameter
NoTs == -1

WatchRecord(timestamp, watched_percentage, video_file) ==
    [last_watched |-> timestamp, watched_percentage |-> watched_percentage,
     full_path |-> video_file]

\* what dict.get returns for a key that is absent (None)
NoRecord == WatchRecord(NoTs, 0, <<>>)

\* A JSON value as json.load returns it: an object is an ordered dict, given
\* by its <<key, record>> pairs; anything else (a list, a number) has obj FALSE.
EmptyHistory == [obj |-> TRUE, pairs |-> <<>>]

SingleEntry(key, rec) == [obj |-> TRUE, pairs |-> <<<<key, rec>>>>]

Keys(h) == {h.pairs[i][1] : i \in 1..Len(h.pairs)}

\* dict.get(key): the record under key, None when there is none
dict_get(h, key) ==
    IF key \in Keys(h)
    THEN h.pairs[CHOOSE i \in 1..Len(h.pairs) : h.pairs[i][1] = key][2]
    ELSE NoRecord

\* dict[key] = rec: a key already present keeps its place and takes the value
dict_set(pairs, key, rec) ==
    IF \E i \in 1..Len(pairs) : pairs[i][1] = key
    THEN [i \in 1..Len(pairs) |->
            IF pairs[i][1] = key THEN <<key, rec>> ELSE pairs[i]]
    ELSE Append(pairs, <<key, rec>>)

\* the dict the JSON decoder builds from an object's members, in file order
RECURSIVE dict_from_members(_)
dict_from_members(members) ==
    IF members = <<>> THEN <<>>
    ELSE LET n == Len(members)
         IN  dict_set(dict_from_members(SubSeq(members, 1, n - 1)),
                      members[n][1], members[n][2])

\* datetime.isoformat() leaves the microseconds out when they are zero
IsoLen(t) == IF t % 1000000 = 0 THEN 19 ELSE 26

DecimalLen(n) == IF n < 10 THEN 1 ELSE IF n < 100 THEN 2 ELSE 3

\* bytes of one member of the object besides its key, timestamp, percentage
\* and path, as json.dump(indent=4) lays a record out
EntryOverhead == 100

RECURSIVE MembersLen(_)
MembersLen(pairs) ==
    IF pairs = <<>> THEN 0
    ELSE LET e == Head(pairs)
         IN  EntryOverhead + Len(e[1]) + IsoLen(e[2].last_watched)
             + DecimalLen(e[2].watched_percentage) + Len(e[2].full_path)
             + MembersLen(Tail(pairs))

\* length of the text json.dump(h, f, indent=4) writes
TextLen(h) ==
    IF ~h.obj \/ h.pairs = <<>> THEN 2
    ELSE 3 + MembersLen(h.pairs) + (Len(h.pairs) - 1)

\* The tracker file.  enc says how its bytes read: "json" (a JSON text,
\* followed by len - TextLen more bytes when len is larger), "garbage" (text
\* that is no JSON; the empty file is that too) or "binary" (bytes that do not
\* decode as text).  locked: open() fails on it, for reading and for writing.
File(exists, locked, enc, value, len) ==
    [exists |-> exists, locked |-> locked, enc |-> enc, obj |-> value.obj,
     pairs |-> value.pairs, len |-> len]

AbsentFile == File(FALSE, FALSE, "garbage", EmptyHistory, 0)

\* the file as open(..., 'w') leaves it: cut to no bytes.  It also stands for
\* the file a write that failed part-way leaves: no complete JSON text.
EmptyFile == File(TRUE, FALSE, "garbage", EmptyHistory, 0)

\* (a variant that takes every path to exist)
exists_unchecked(path, f, d) == TRUE

exists(path, f, d) == path \in f \/ (path = tracking_file /\ d.exists)

\* open(tracking_file, 'r') and json.load(f): the value, or the exception
json_load(d) ==
    IF d.locked THEN [raised |-> "IOError", value |-> EmptyHistory]
    ELSE IF d.enc = "binary"
    THEN [raised |-> "UnicodeDecodeError", value |-> EmptyHistory]
    ELSE IF d.enc = "garbage" \/ d.len > TextLen([obj |-> d.obj, pairs |-> d.pairs])
    THEN [raised |-> "JSONDecodeError", value |-> EmptyHistory]
    ELSE [raised |-> "none",
          value |-> [obj |-> d.obj,
                     pairs |-> IF d.obj THEN dict_from_members(d.pairs) ELSE <<>>]]

load_history(d) ==
    IF d.exists
    THEN LET r == json_load(d)
         IN  IF r.raised \in {"JSONDecodeError", "IOError"}
             THEN [raised |-> FALSE, value |-> EmptyHistory]
             ELSE [raised |-> r.raised # "none", value |-> r.value]
    ELSE [raised |-> FALSE, value |-> EmptyHistory]

Max(a, b) == IF a >= b THEN a ELSE b

\* (a variant that opens without truncating, as mode 'r+' would)
open_keeping_bytes(d) == [d EXCEPT !.exists = TRUE]

\* open(tracking_file, 'w') succeeds: the file is created or cut to no bytes
open_w(d) == EmptyFile

\* the text of h written at offset 0 of the open file, over what it holds
write_at_0(d, h) == File(TRUE, FALSE, "json", h, Max(d.len, TextLen(h)))

\* the outcomes open() and the write can have on this file system
WriteOutcomes(f, d) ==
    IF d.locked \/ Folder \notin f THEN {"open_fails"}
    ELSE {"ok", "open_fails", "write_fails"}

\* save_history with the outcome wr of its I/O: the file and what is printed
save_history(h, d, wr) ==
    CASE wr = "ok"          -> [disk |-> write_at_0(open_w(d), h), printed |-> {}]
      [] wr = "write_fails" -> [disk |-> open_w(d),
                                printed |-> {"Error saving tracking file"}]
      [] OTHER              -> [disk |-> d,
                                printed |-> {"Error saving tracking file"}]

\* (a variant keyed by the path as given)
key_full_path(video_file) == video_file

\* the key track_video files a record under
history_key(video_file) == basename(video_file)

\* (the variant commented out in the source: the record is merged into h)
merged_history(h, video_file, timestamp, watched_percentage) ==
    [obj |-> TRUE,
     pairs |-> dict_set(h.pairs, history_key(video_file),
                        WatchRecord(timestamp, watched_percentage, video_file))]

\* the history track_video assigns to self.history, which was h
new_history(h, video_file, timestamp, watched_percentage) ==
    SingleEntry(history_key(video_file),
                WatchRecord(timestamp, watched_percentage, video_file))

resolve(video_file) ==
    IF ~isabs(video_file) THEN join(Folder, video_file) ELSE video_file

\* (a variant that keeps the old history when the write fails)
track_video_rollback(h, d, f, t, video_file, timestamp, watched_percentage, wr) ==
    LET path == resolve(video_file)
    IN  IF ~exists(path, f, d)
        THEN [history |-> h, disk |-> d, printed |-> {"File not found"},
              found |-> FALSE, path |-> path]
        ELSE LET ts == IF timestamp = NoTs THEN t ELSE timestamp
                 h2 == new_history(h, path, ts, watched_percentage)
                 sv == save_history(h2, d, wr)
             IN  [history |-> IF wr = "ok" THEN h2 ELSE h, disk |-> sv.disk,
                  printed |-> sv.printed, found |-> TRUE, path |-> path]

\* track_video on history h and tracker file d at clock reading t, with
\* I/O outcome wr: the new history, the new file, what is printed
track_video(h, d, f, t, video_file, timestamp, watched_percentage, wr) ==
    LET path == resolve(video_file)
    IN  IF ~exists(path, f, d)
        THEN [history |-> h, disk |-> d, printed |-> {"File not found"},
              found |-> FALSE, path |-> path]
        ELSE LET ts == IF timestamp = NoTs THEN t ELSE timestamp
                 h2 == new_history(h, path, ts, watched_percentage)
                 sv == save_history(h2, d, wr)
             IN  [history |-> h2, disk |-> sv.disk, printed |-> sv.printed,
                  found |-> TRUE, path |-> path]

get_last_watched(h, video_file) == dict_get(h, basename(video_file))


(***************************************************************************)
(* The inputs the calls are made with, and the tracker files a run finds.  *)
(***************************************************************************)
PathGone == <<"/", "o", "/">> \o NameX

\* video identifiers: relative names, absolute paths, existing or not
VideoIds == {NameA, NameB, PathOut, NameX, PathGone}

\* the identifiers play_video and get_last_watched are called with
PlayIds == {NameA, NameX, PathOut}

\* no argument (None), which get_last_watched takes for "the whole history"
NoVideo == <<>>

\* the optional arguments of track_video: left to their defaults, or given
TrackArgs ==
    { [timestamp |-> NoTs, percentage |-> 0],
      [timestamp |-> 0, percentage |-> 50] }

Systems == {"Darwin", "Windows", "Linux", "Other"}

RecordA == WatchRecord(0, 0, join(Folder, NameA))

RecordA50 == WatchRecord(0, 50, join(Folder, NameA))

RecordB == WatchRecord(0, 0, join(Folder, NameB))

JsonFile(obj, members) ==
    LET v == [obj |-> obj, pairs |-> members]
    IN  File(TRUE, FALSE, "json", v, TextLen(v))

\* tracker files left by earlier runs, by the version of track_video that
\* merged entries (the block commented out in the source), or by other hands
InitialFiles ==
    { AbsentFile,
      File(TRUE, TRUE, "json", SingleEntry(NameA, RecordA),
           TextLen(SingleEntry(NameA, RecordA))),
      File(TRUE, FALSE, "garbage", EmptyHistory, 1),
      File(TRUE, FALSE, "binary", EmptyHistory, 2),
      JsonFile(TRUE, <<>>),
      JsonFile(TRUE, <<<<NameA, RecordA>>>>),
      JsonFile(TRUE, <<<<NameA, RecordA>>, <<NameB, RecordB>>>>),
      JsonFile(TRUE, <<<<NameA, RecordA>>, <<NameA, RecordA50>>>>),
      JsonFile(FALSE, <<>>),
      File(TRUE, FALSE, "json", SingleEntry(NameA, RecordA),
           TextLen(SingleEntry(NameA, RecordA)) + 1) }

FullFolder == FsUniverse

NoFolder == {PathOut}

NoPlay == [path |-> <<>>, system |-> "none", launch |-> "none", tracks |-> 0]

NoTrack ==
    [arg |-> <<>>, timestamp |-> NoTs, percentage |-> 0, path |-> <<>>,
     found |-> FALSE, wr |-> "none", clock |-> 0,
     hBefore |-> EmptyHistory, dBefore |-> AbsentFile]

NoReturn == [op |-> "none", rec |-> NoRecord, all |-> EmptyHistory]

MainIdle == [pc |-> "idle", videos |-> <<>>, selected |-> <<>>, inputs |-> 0]

InitStores ==
    /\ now = 0
    /\ history = [s \in Stores |-> EmptyHistory]
    /\ pc = [s \in Stores |-> "new"]
    /\ ret = [s \in Stores |-> NoReturn]
    /\ out = [s \in Stores |-> {}]
    /\ calls = [s \in Stores |-> 0]
    /\ play = [s \in Stores |-> NoPlay]
    /\ trk = [s \in Stores |-> NoTrack]
    /\ listed = <<>>
    /\ lastWriter = 0
    /\ mainst = MainIdle

Init ==
    /\ fs \in {FullFolder, NoFolder}
    /\ disk \in InitialFiles
    /\ disk.exists => Folder \in fs
    /\ InitStores

(***************************************************************************)
(* The calls of one store, each a whole method of VideoTracker.            *)
(***************************************************************************)
\* __init__: self.history = self.load_history(); an exception load_history
\* lets through leaves no store
Construct(s) ==
    /\ pc[s] = "new"
    /\ LET r == load_history(disk)
       IN  /\ history' = [history EXCEPT ![s] = r.value]
           /\ pc' = [pc EXCEPT ![s] = IF r.raised THEN "raised" ELSE "ready"]
    /\ UNCHANGED <<fs, disk, now, ret, out, calls, play, trk, listed,
                   lastWriter, mainst>>

\* what a track_video call leaves in trk[s]
TrackNote(s, video_file, timestamp, percentage, wr, r) ==
    [arg |-> video_file, timestamp |-> timestamp, percentage |-> percentage,
     path |-> r.path, found |-> r.found,
     wr |-> IF r.found THEN wr ELSE "none", clock |-> now,
     hBefore |-> history[s], dBefore |-> disk]

\* the state after store s ran track_video, its I/O having the outcome wr;
\* printed is what the call in progress has printed so far
TrackStep(s, video_file, timestamp, percentage, wr, printed) ==
    LET r == track_video(history[s], disk, fs, now, video_file, timestamp,
                         percentage, wr)
    IN  /\ history' = [history EXCEPT ![s] = r.history]
        /\ disk' = r.disk
        /\ out' = [out EXCEPT ![s] = printed \cup r.printed]
        /\ trk' = [trk EXCEPT ![s] =
                     TrackNote(s, video_file, timestamp, percentage, wr, r)]
        /\ lastWriter' = IF r.found /\ wr = "ok" THEN s ELSE lastWriter

TrackVideo(s, video_file, timestamp, percentage, wr) ==
    /\ pc[s] = "ready"
    /\ calls[s] < MaxCalls
    /\ wr \in WriteOutcomes(fs, disk)
    /\ TrackStep(s, video_file, timestamp, percentage, wr, {})
    /\ trk'[s].found \/ wr = "open_fails"
    /\ calls' = [calls EXCEPT ![s] = @ + 1]
    /\ ret' = [ret EXCEPT ![s] = [NoReturn EXCEPT !.op = "track"]]
    /\ play' = [play EXCEPT ![s] = NoPlay]
    /\ UNCHANGED <<fs, now, pc, listed, mainst>>

\* get_last_watched: self.history.get(basename) for a given video, the whole
\* history for none; .get on a history that is no dict raises AttributeError
GetLastWatched(s, video_file) ==
    /\ pc[s] = "ready"
    /\ calls[s] < MaxCalls
    /\ ret' = [ret EXCEPT ![s] =
                 IF video_file = NoVideo
                 THEN [op |-> "get_all", rec |-> NoRecord, all |-> history[s]]
                 ELSE IF ~history[s].obj
                 THEN [NoReturn EXCEPT !.op = "raised"]
                 ELSE [op |-> "get", all |-> EmptyHistory,
                       rec |-> get_last_watched(history[s], video_file)]]
    /\ calls' = [calls EXCEPT ![s] = @ + 1]
    /\ out' = [out EXCEPT ![s] = {}]
    /\ trk' = [trk EXCEPT ![s] = NoTrack]
    /\ play' = [play EXCEPT ![s] = NoPlay]
    /\ UNCHANGED <<fs, disk, now, history, pc, listed, lastWriter, mainst>>

\* what the launch attempt of play_video comes to on this system
launch_result(system, raises) ==
    IF system \notin {"Darwin", "Windows", "Linux"} THEN "unsupported"
    ELSE IF raises THEN "raised" ELSE "launched"

launch_printed(result) ==
    CASE result = "unsupported" -> {"Unsupported operating system"}
      [] result = "raised"      -> {"Error playing video"}
      [] OTHER                  -> {}

\* play_video up to the end of its try statement: the path is resolved and
\* the player is launched, which blocks until the launch returns or raises
PlayLaunch(s, video_file, system, raises) ==
    /\ pc[s] = "ready"
    /\ calls[s] < MaxCalls
    /\ system = "Other" => ~raises
    /\ LET result == launch_result(system, raises)
       IN  /\ play' = [play EXCEPT ![s] =
                         [path |-> resolve(video_file), system |-> system,
                          launch |-> result, tracks |-> 0]]
           /\ out' = [out EXCEPT ![s] = launch_printed(result)]
    /\ pc' = [pc EXCEPT ![s] = "played"]
    /\ calls' = [calls EXCEPT ![s] = @ + 1]
    /\ ret' = [ret EXCEPT ![s] = [NoReturn EXCEPT !.op = "play"]]
    /\ trk' = [trk EXCEPT ![s] = NoTrack]
    /\ UNCHANGED <<fs, disk, now, history, listed, lastWriter, mainst>>

\* the arguments play_video's last statement calls track_video with
play_track_args(p) ==
    [video_file |-> p.path, timestamp |-> NoTs, percentage |-> 0]

\* (a variant with the tracking inside the try block, after the launch)
play_tracks_if_launched(result) == result = "launched"

\* whether play_video goes on to track the video after this launch result
play_tracks(result) == TRUE

\* play_video's last statement, self.track_video(video_file), and return
PlayTrackStep(s, wr) ==
    /\ pc[s] = "played"
    /\ wr \in WriteOutcomes(fs, disk)
    /\ exists(play[s].path, fs, disk) \/ wr = "open_fails"
    /\ LET a == play_track_args(play[s])
       IN  IF play_tracks(play[s].launch)
           THEN /\ TrackStep(s, a.video_file, a.timestamp, a.percentage, wr,
                             out[s])
                /\ play' = [play EXCEPT ![s].tracks = @ + 1]
           ELSE UNCHANGED <<history, disk, out, trk, lastWriter, play>>
    /\ pc' = [pc EXCEPT ![s] = "ready"]
    /\ UNCHANGED <<fs, now, calls, listed>>

PlayTrack(s, wr) ==
    /\ PlayTrackStep(s, wr)
    /\ UNCHANGED <<ret, mainst>>

\* time passes
Tick ==
    /\ now < MaxClock
    /\ now' = now + 1
    /\ UNCHANGED <<fs, disk, history, pc, ret, out, calls, play, trk, listed,
                   lastWriter, mainst>>

Next ==
    \/ Construct(1)
    \/ \E v \in VideoIds, a \in TrackArgs,
          wr \in {"ok", "open_fails", "write_fails"} :
          TrackVideo(1, v, a.timestamp, a.percentage, wr)
    \/ \E v \in PlayIds \cup {NoVideo} : GetLastWatched(1, v)
    \/ \E v \in PlayIds, sys \in Systems, raises \in BOOLEAN :
          PlayLaunch(1, v, sys, raises)
    \/ \E wr \in {"ok", "open_fails", "write_fails"} : PlayTrack(1, wr)
    \/ Tick

Spec == Init /\ [][Next]_vars


(***************************************************************************)
(* Properties of one store (specification Spec).                           *)
(***************************************************************************)
\* the path a video identifier stands for: itself when it starts with the
\* separator, the tracked folder's entry of that name otherwise
ResolvedPath(v) ==
    IF Len(v) > 0 /\ v[1] = "/" THEN v ELSE Folder \o <<"/">> \o v

\* the last character-run of a path, after its last separator
LastComponent(p) ==
    IF \E i \in 1..Len(p) : p[i] = "/"
    THEN LET i == CHOOSE k \in 1..Len(p) :
                     p[k] = "/" /\ \A j \in (k + 1)..Len(p) : p[j] # "/"
         IN  [j \in 1..(Len(p) - i) |-> p[i + j]]
    ELSE p

IsThere(p, f, d) == p \in f \/ (p = Folder \o <<"/">> \o TrackerName /\ d.exists)

\* store s has just returned from a track_video call, made directly or by
\* play_video, with identifier trk[s].arg
TrackReturned(s) ==
    /\ pc[s] = "ready"
    /\ \/ ret[s].op = "track"
       \/ ret[s].op = "play" /\ play[s].tracks = 1

\* the timestamp the last track_video call of s was to record
StampOf(s) ==
    IF trk[s].timestamp = NoTs THEN trk[s].clock ELSE trk[s].timestamp

\* the tracker file holds, as its whole content, the JSON text of h
HoldsExactly(d, h) ==
    /\ d.exists /\ ~d.locked /\ d.enc = "json"
    /\ d.obj = h.obj /\ d.pairs = h.pairs
    /\ d.len = TextLen(h)

\* C1: after track(b) on an existing file, whatever the history was before
\* (in particular after track(a) with another basename), the mapping holds
\* exactly one entry, keyed by the basename of b's resolved path, whose
\* full_path is that resolved absolute path; no other key of the earlier
\* history remains; and when the write succeeded the persisted document is
\* that same one-entry mapping.
C1_SingleEntryOverwrite ==
    \A s \in Stores :
        (TrackReturned(s)
         /\ IsThere(ResolvedPath(trk[s].arg), fs, trk[s].dBefore))
        => LET b == ResolvedPath(trk[s].arg)
               h == history[s]
           IN  /\ h.obj
               /\ Len(h.pairs) = 1
               /\ h.pairs[1][1] = LastComponent(b)
               /\ h.pairs[1][2].full_path = b
               /\ b[1] = "/"
               /\ \A i \in 1..Len(trk[s].hBefore.pairs) :
                     trk[s].hBefore.pairs[i][1] # LastComponent(b)
                     => \A j \in 1..Len(h.pairs) :
                           h.pairs[j][1] # trk[s].hBefore.pairs[i][1]
               /\ trk[s].wr = "ok" => HoldsExactly(disk, h)

\* C1 witness: track of /o/a.mp4 (key a.mp4) was followed by a successful
\* track of bb.MKV, written to the tracker file.
C1_Witness ==
    /\ TrackReturned(1)
    /\ calls[1] = 2
    /\ trk[1].arg = NameB
    /\ trk[1].wr = "ok"
    /\ trk[1].hBefore.obj /\ Len(trk[1].hBefore.pairs) = 1
    /\ trk[1].hBefore.pairs[1][1] = NameA
    /\ trk[1].hBefore.pairs[1][2].full_path = PathOut
    /\ history[1].pairs[1][1] = NameB

\* C2: a track call whose identifier does not resolve to an existing path
\* prints "File not found", returns normally and leaves the in-memory
\* mapping and the tracker file as they were (nothing is written).
C2_MissingFileRejected ==
    \A s \in Stores :
        (TrackReturned(s)
         /\ ~IsThere(ResolvedPath(trk[s].arg), fs, trk[s].dBefore))
        => /\ history[s] = trk[s].hBefore
           /\ disk = trk[s].dBefore
           /\ "File not found" \in out[s]
           /\ "Error saving tracking file" \notin out[s]

\* C2 witness: track("x.mp4"), which does not exist, on a store whose
\* history is not empty.
C2_Witness ==
    /\ TrackReturned(1)
    /\ ret[1].op = "track"
    /\ trk[1].arg = NameX
    /\ Len(history[1].pairs) > 0
    /\ disk.exists

\* the tracker file does not exist, cannot be opened, or is not valid JSON
NoValidJson(d) ==
    \/ ~d.exists
    \/ d.locked
    \/ d.enc # "json"
    \/ d.len > TextLen([obj |-> d.obj, pairs |-> d.pairs])

\* C3 (as claimed): constructing a store over a tracker file that is absent,
\* unreadable or not valid JSON never raises and leaves the empty mapping.
C3_LoadNeverRaises ==
    (pc[1] # "new" /\ calls[1] = 0 /\ NoValidJson(disk))
    => (pc[1] = "ready" /\ history[1] = EmptyHistory)

\* C4 (as claimed): the history holds at most one entry, in memory and as
\* persisted, in every state of a constructed store.
C4_AtMostOneEntry ==
    pc[1] # "new"
    => /\ Len(history[1].pairs) <= 1
       /\ ~NoValidJson(disk) => Len(dict_from_members(disk.pairs)) <= 1

\* C4 (amended): every change a call makes to the in-memory history leaves
\* a mapping of exactly one entry, and every change to the tracker file
\* leaves either a one-entry document or, when the write failed after the
\* file was opened, a file cut short; a history of several entries can only be
\* the one loaded at construction, not yet replaced.
C4_OneEntryAfterTrack ==
    [][/\ (pc[1] # "new" /\ history'[1] # history[1])
          => (history'[1].obj /\ Len(history'[1].pairs) = 1)
       /\ disk' # disk
          => \/ disk' = EmptyFile
             \/ /\ ~NoValidJson(disk')
                /\ disk'.obj /\ Len(disk'.pairs) = 1]_vars

\* C4 witness: a store that loaded a two-entry document has tracked a video
\* and now holds one entry.
C4_Witness ==
    /\ TrackReturned(1)
    /\ Len(trk[1].hBefore.pairs) = 2
    /\ Len(history[1].pairs) = 1
    /\ trk[1].wr = "ok"

\* C5: when track is called on an existing file and the write fails, the
\* error is printed and not propagated: the call returns normally, the
\* in-memory mapping is the new one-entry record, get_last_watched for that
\* video returns it, and the tracker file does not hold it (the file is as
\* it was, or empty).
C5_WriteFailureSwallowed ==
    \A s \in Stores :
        (TrackReturned(s)
         /\ IsThere(ResolvedPath(trk[s].arg), fs, trk[s].dBefore)
         /\ trk[s].wr \in {"open_fails", "write_fails"})
        => LET b == ResolvedPath(trk[s].arg)
               r == [last_watched |-> StampOf(s),
                     watched_percentage |-> trk[s].percentage,
                     full_path |-> b]
           IN  /\ "Error saving tracking file" \in out[s]
               /\ history[s] = [obj |-> TRUE,
                                pairs |-> <<<<LastComponent(b), r>>>>]
               /\ get_last_watched(history[s], trk[s].arg) = r
               /\ disk \in {trk[s].dBefore, EmptyFile}

\* C5 witness: a track whose write failed after the file was opened changed
\* the history in memory while the file lost its content.
C5_Witness ==
    /\ TrackReturned(1)
    /\ ret[1].op = "track"
    /\ trk[1].found
    /\ trk[1].wr = "write_fails"
    /\ history[1] # trk[1].hBefore
    /\ trk[1].dBefore.exists /\ trk[1].dBefore.len > 0
    /\ disk = EmptyFile

\* C6: while play_video has finished its launch attempt and not yet
\* returned, track has not been called and is the step that comes next;
\* once play_video has returned, whatever the launch came to, track was
\* called exactly once, for the resolved path, with the default timestamp
\* and percentage.
C6_PlayThenTrackOnce ==
    \A s \in Stores :
        /\ pc[s] = "played"
           => /\ play[s].launch \in {"launched", "raised", "unsupported"}
              /\ play[s].tracks = 0
              /\ trk[s] = NoTrack
              /\ ENABLED PlayTrack(s, "open_fails")
        /\ (pc[s] = "ready" /\ ret[s].op = "play")
           => /\ play[s].tracks = 1
              /\ trk[s].arg = play[s].path
              /\ play[s].path[1] = "/"
              /\ trk[s].timestamp = NoTs
              /\ trk[s].percentage = 0

\* C6 witness: a play_video whose launch raised has returned, having
\* tracked the file.
C6_Witness ==
    /\ pc[1] = "ready"
    /\ ret[1].op = "play"
    /\ play[1].launch = "raised"
    /\ trk[1].found
    /\ history[1].pairs[1][2].full_path = play[1].path

\* the tracker file decodes, as load_history decodes it, to the history of s
InSync(s, d, h) ==
    LET r == load_history(d) IN ~r.raised /\ r.value = h[s]

\* the step is a call of store 1 in which a write failed
FailedWriteStep ==
    /\ calls'[1] # calls[1] \/ (pc[1] = "played" /\ pc'[1] = "ready")
    /\ trk'[1].wr \in {"open_fails", "write_fails"}

\* C9: construction leaves the in-memory mapping equal to what the tracker
\* file decodes to, and every call in which no write fails keeps it so;
\* hence a run without write failures is in sync after construction and
\* after every call, and a new store would load the same history.  A
\* document that was written decodes and re-encodes to the same document.
C9_InSyncUnlessWriteFails ==
    [][/\ ((pc[1] = "new" \/ InSync(1, disk, history)) /\ ~FailedWriteStep)
          => (pc'[1] \in {"ready", "played"} => InSync(1, disk', history'))
       /\ (disk' # disk /\ disk' # EmptyFile)
          => write_at_0(open_w(disk'), load_history(disk').value) = disk']_vars

\* C9 witness: a successful track replaced a longer document and the file
\* decodes to the new history.
C9_Witness ==
    /\ TrackReturned(1)
    /\ trk[1].wr = "ok"
    /\ trk[1].dBefore.exists
    /\ trk[1].dBefore.len > disk.len
    /\ InSync(1, disk, history)
    /\ history[1] # trk[1].hBefore


(***************************************************************************)
(* list_videos, and the specification ListSpec that applies it to folders  *)
(* of every content.                                                       *)
(***************************************************************************)
\* number of entries, besides the tracker file, a folder of ListSpec holds
MaxEntries == 3

\* os.listdir(video_folder) as a set: the names directly inside the folder
listdir(f, d) ==
    {basename(p) : p \in {q \in f \cup (IF d.exists THEN {tracking_file} ELSE {}) :
                            q # Folder /\ dirname(q) = Folder}}

\* the orders os.listdir may return the names in
RECURSIVE Orders(_)
Orders(S) ==
    IF S = {} THEN {<<>>}
    ELSE UNION {{<<x>> \o q : q \in Orders(S \ {x})} : x \in S}

\* the test list_videos makes on each name
is_video(name) == lower(splitext_ext(name)) \in video_extensions

\* the list comprehension of list_videos over the listing
RECURSIVE list_videos(_)
list_videos(listing) ==
    IF listing = <<>> THEN <<>>
    ELSE IF is_video(Head(listing))
    THEN <<Head(listing)>> \o list_videos(Tail(listing))
    ELSE list_videos(Tail(listing))

\* list_videos called on store s; os.listdir raises when the folder is gone
ListVideos(s) ==
    /\ pc[s] = "ready"
    /\ ret[s].op = "none"
    /\ IF Folder \in fs
       THEN \E listing \in Orders(listdir(fs, disk)) :
               /\ listed' = list_videos(listing)
               /\ ret' = [ret EXCEPT ![s] = [NoReturn EXCEPT !.op = "list"]]
       ELSE /\ listed' = <<>>
            /\ ret' = [ret EXCEPT ![s] = [NoReturn EXCEPT !.op = "raised"]]
    /\ UNCHANGED <<fs, disk, now, history, pc, out, calls, play, trk,
                   lastWriter, mainst>>

InFolder(f) == {p \in f : p # Folder /\ p # PathOut}

ListInit ==
    /\ fs \in {f \in SUBSET FsUniverse :
                 /\ WellFormedFs(f)
                 /\ PathOut \in f
                 /\ Cardinality(InFolder(f)) <= MaxEntries}
    /\ disk \in {AbsentFile, JsonFile(TRUE, <<<<NameA, RecordA>>>>)}
    /\ disk.exists => Folder \in fs
    /\ InitStores

ListNext == Construct(1) \/ ListVideos(1)

ListSpec == ListInit /\ [][ListNext]_vars

Range(q) == {q[i] : i \in 1..Len(q)}

\* a name ends, after a stem that is not only dots, in one of the five
\* extensions, in any mix of upper and lower case
EndsInVideoExtension(n) ==
    /\ Len(n) > 4
    /\ \E i \in 1..(Len(n) - 4) : n[i] # "."
    /\ \E e \in {".mp4", ".avi", ".mkv", ".mov", ".wmv"} :
          LET x == [j \in 1..4 |-> n[Len(n) - 4 + j]]
          IN  \/ e = ".mp4" /\ x = <<".", "m", "p", "4">>
              \/ e = ".avi" /\ x = <<".", "a", "v", "i">>
              \/ e = ".mkv" /\ x[1] = "." /\ x[2] \in {"m", "M"}
                            /\ x[3] \in {"k", "K"} /\ x[4] \in {"v", "V"}
              \/ e = ".mov" /\ x = <<".", "m", "o", "v">>
              \/ e = ".wmv" /\ x = <<".", "w", "m", "v">>

\* the names of the folder's immediate entries, the tracker file included
ImmediateNames ==
    {n \in {NameA, NameB, NameT, NameH, NameD, NameS, NameC} :
        Folder \o <<"/">> \o n \in fs}
    \cup (IF disk.exists THEN {TrackerName} ELSE {})

\* C8 (as claimed): list_videos returns exactly the names of the folder's
\* immediate entries that end in a video extension, compared without regard
\* to case, and never a nested folder, an entry with another extension or
\* the tracker file.
C8_ListsExactlyVideoFiles ==
    ret[1].op = "list"
    => /\ Range(listed) = {n \in ImmediateNames : EndsInVideoExtension(n)}
       /\ Len(listed) = Cardinality(Range(listed))
       /\ TrackerName \notin Range(listed)
       /\ \A n \in Range(listed) : Folder \o <<"/">> \o n \notin Directories


(***************************************************************************)
(* main(): the folder prompt, the numbered menu and the selection loop.    *)
(***************************************************************************)
\* number of menu inputs read in a behaviour of MainSpec
MaxInputs == 2

\* the characters of the model's names in code point order
CodePoints ==
    <<".", "/", "4", "K", "M", "V", "a", "b", "c", "d", "e", "i", "j", "k",
      "m", "n", "o", "p", "r", "s", "t", "v", "w", "x">>

ord(c) == CHOOSE i \in 1..Len(CodePoints) : CodePoints[i] = c

\* p < q as Python compares str values
str_less(p, q) ==
    \/ \E i \in 1..Len(p) :
          /\ i <= Len(q)
          /\ \A j \in 1..(i - 1) : p[j] = q[j]
          /\ ord(p[i]) < ord(q[i])
    \/ Len(p) < Len(q) /\ \A j \in 1..Len(p) : p[j] = q[j]

\* videos.sort() on a list without repeated names
sort(list) ==
    CHOOSE q \in Orders(Range(list)) :
        \A i \in 1..(Len(q) - 1) : str_less(q[i], q[i + 1])

\* what the user may type at the menu prompt; "EOF" is the end of the input
Choices == {"q", "Q", "0", "1", "2", "9", "x", "EOF"}

choice_lower(choice) == IF choice = "Q" THEN "q" ELSE choice

\* int(choice): the number, or ValueError
int(choice) ==
    CASE choice = "0" -> [raised |-> FALSE, value |-> 0]
      [] choice = "1" -> [raised |-> FALSE, value |-> 1]
      [] choice = "2" -> [raised |-> FALSE, value |-> 2]
      [] choice = "9" -> [raised |-> FALSE, value |-> 9]
      [] OTHER        -> [raised |-> TRUE, value |-> 0]

SmallFolder ==
    {Folder, join(Folder, NameA), join(Folder, NameB), join(Folder, NameT),
     PathOut}

EmptyFolder == {Folder, PathOut}

MainInit ==
    /\ fs \in {SmallFolder, EmptyFolder, NoFolder}
    /\ disk \in InitialFiles
    /\ disk.exists => Folder \in fs
    /\ InitStores

\* main() up to its first menu prompt: the tracker is constructed, the
\* videos are listed, sorted and printed, each with get_last_watched.  An
\* exception from any of these is handled nowhere and ends the program.
MainStart ==
    /\ mainst.pc = "idle"
    /\ pc[1] = "new"
    /\ LET r == load_history(disk)
       IN  /\ history' = [history EXCEPT ![1] = r.value]
           /\ IF r.raised
              THEN /\ pc' = [pc EXCEPT ![1] = "raised"]
                   /\ mainst' = [mainst EXCEPT !.pc = "crashed"]
                   /\ listed' = listed
              ELSE /\ pc' = [pc EXCEPT ![1] = "ready"]
                   /\ IF Folder \notin fs
                      THEN /\ mainst' = [mainst EXCEPT !.pc = "crashed"]
                           /\ listed' = listed
                      ELSE \E listing \in Orders(listdir(fs, disk)) :
                              LET videos == sort(list_videos(listing))
                              IN  /\ listed' = list_videos(listing)
                                  /\ mainst' =
                                       [mainst EXCEPT
                                          !.videos = videos,
                                          !.pc = IF videos # <<>> /\ ~r.value.obj
                                                 THEN "crashed" ELSE "prompt"]
    /\ UNCHANGED <<fs, disk, now, ret, out, calls, play, trk, lastWriter>>

\* one pass of the loop that does not play: quit, a number out of range,
\* something that is no number, or the end of the input (EOFError)
MainInput(choice) ==
    /\ mainst.pc = "prompt"
    /\ mainst.inputs < MaxInputs
    /\ LET n == int(choice)
       IN  /\ ~(choice # "EOF" /\ choice_lower(choice) # "q" /\ ~n.raised
                /\ 0 <= n.value - 1 /\ n.value - 1 < Len(mainst.videos))
           /\ mainst' =
                [mainst EXCEPT
                   !.inputs = @ + 1,
                   !.pc = IF choice = "EOF" THEN "crashed"
                          ELSE IF choice_lower(choice) = "q" THEN "done"
                          ELSE "prompt"]
           /\ out' = [out EXCEPT ![1] =
                        IF choice = "EOF" \/ choice_lower(choice) = "q" THEN {}
                        ELSE IF n.raised
                        THEN {"Please enter a valid number or 'q'."}
                        ELSE {"Invalid selection. Please try again."}]
    /\ UNCHANGED <<fs, disk, now, history, pc, ret, calls, play, trk, listed,
                   lastWriter>>

\* a valid selection: videos[index] is played, up to the end of the launch
MainSelect(choice, system, raises) ==
    /\ mainst.pc = "prompt"
    /\ mainst.inputs < MaxInputs
    /\ choice # "EOF" /\ choice_lower(choice) # "q"
    /\ LET n == int(choice)
       IN  /\ ~n.raised
           /\ 0 <= n.value - 1 /\ n.value - 1 < Len(mainst.videos)
           /\ system = "Other" => ~raises
           /\ LET selected_video == mainst.videos[n.value]
                  result == launch_result(system, raises)
              IN  /\ mainst' = [mainst EXCEPT !.inputs = @ + 1, !.pc = "playing",
                                              !.selected = selected_video]
                  /\ play' = [play EXCEPT ![1] =
                                [path |-> resolve(selected_video),
                                 system |-> system, launch |-> result,
                                 tracks |-> 0]]
                  /\ out' = [out EXCEPT ![1] = launch_printed(result)]
    /\ pc' = [pc EXCEPT ![1] = "played"]
    /\ ret' = [ret EXCEPT ![1] = [NoReturn EXCEPT !.op = "play"]]
    /\ UNCHANGED <<fs, disk, now, history, calls, trk, listed, lastWriter>>

\* the rest of the selection: play_video tracks the video, then main reads
\* the record back, prints it and leaves the loop
MainFinish(wr) ==
    /\ mainst.pc = "playing"
    /\ PlayTrackStep(1, wr)
    /\ mainst' = [mainst EXCEPT !.pc = "done"]
    /\ ret' = [ret EXCEPT ![1] =
                 [op |-> "get", all |-> EmptyHistory,
                  rec |-> get_last_watched(history'[1], mainst.selected)]]

MainNext ==
    \/ MainStart
    \/ \E choice \in Choices : MainInput(choice)
    \/ \E choice \in Choices, sys \in Systems, raises \in BOOLEAN :
          MainSelect(choice, sys, raises)
    \/ \E wr \in {"ok", "open_fails", "write_fails"} : MainFinish(wr)
    \/ Tick

MainSpec == MainInit /\ [][MainNext]_vars

\* C7 (as claimed): whatever folder path is entered, whatever the tracker
\* file holds and whatever is typed at the menu, main() never ends through
\* an unhandled error.
C7_NeverCrashes == mainst.pc # "crashed"


(***************************************************************************)
(* Two stores (two processes) on the same folder.  track_video is taken    *)
(* in the steps another process can come between: its computation up to    *)
(* the assignment of self.history, the open() of save_history, which cuts  *)
(* the file, and the write, which json.dump's buffered text reaches the    *)
(* file with when the with block closes it, at the writer's own offset 0.  *)
(***************************************************************************)
\* number of track_video calls each store makes in a behaviour of RaceSpec
MaxRaceCalls == 1

RaceIds == {NameA, NameB}

RaceInit ==
    /\ fs = SmallFolder
    /\ disk \in { AbsentFile,
                  JsonFile(TRUE, <<<<NameA, RecordA>>, <<NameB, RecordB>>>>) }
    /\ InitStores

\* track_video up to its call of save_history
TrackBegin(s, video_file, timestamp, percentage) ==
    /\ pc[s] = "ready"
    /\ calls[s] < MaxRaceCalls
    /\ LET path == resolve(video_file)
           found == exists(path, fs, disk)
           ts == IF timestamp = NoTs THEN now ELSE timestamp
       IN  /\ history' = [history EXCEPT ![s] =
                            IF found
                            THEN new_history(history[s], path, ts, percentage)
                            ELSE history[s]]
           /\ out' = [out EXCEPT ![s] =
                        IF found THEN {} ELSE {"File not found"}]
           /\ pc' = [pc EXCEPT ![s] = IF found THEN "saving" ELSE "ready"]
           /\ trk' = [trk EXCEPT ![s] =
                        [arg |-> video_file, timestamp |-> timestamp,
                         percentage |-> percentage, path |-> path,
                         found |-> found, wr |-> "none", clock |-> now,
                         hBefore |-> NoTrack.hBefore,
                         dBefore |-> NoTrack.dBefore]]
    /\ calls' = [calls EXCEPT ![s] = @ + 1]
    /\ ret' = [ret EXCEPT ![s] = [NoReturn EXCEPT !.op = "track"]]
    /\ UNCHANGED <<fs, disk, now, play, listed, lastWriter, mainst>>

\* save_history: open(self.tracking_file, 'w'), which succeeds or raises
SaveOpen(s, ok) ==
    /\ pc[s] = "saving"
    /\ ok => "ok" \in WriteOutcomes(fs, disk)
    /\ disk' = IF ok THEN open_w(disk) ELSE disk
    /\ pc' = [pc EXCEPT ![s] = IF ok THEN "opened" ELSE "ready"]
    /\ trk' = [trk EXCEPT ![s].wr = IF ok THEN "none" ELSE "open_fails"]
    /\ out' = [out EXCEPT ![s] =
                 IF ok THEN out[s] ELSE {"Error saving tracking file"}]
    /\ UNCHANGED <<fs, now, history, ret, calls, play, listed, lastWriter,
                   mainst>>

\* save_history: the text reaches the file as the with block closes it
SaveWrite(s, ok) ==
    /\ pc[s] = "opened"
    /\ disk' = IF ok THEN write_at_0(disk, history[s]) ELSE disk
    /\ lastWriter' = IF ok THEN s ELSE lastWriter
    /\ pc' = [pc EXCEPT ![s] = "ready"]
    /\ trk' = [trk EXCEPT ![s].wr = IF ok THEN "ok" ELSE "write_fails"]
    /\ out' = [out EXCEPT ![s] =
                 IF ok THEN out[s] ELSE {"Error saving tracking file"}]
    /\ UNCHANGED <<fs, now, history, ret, calls, play, listed, mainst>>

RaceNext ==
    \/ \E s \in Stores : Construct(s)
    \/ \E s \in Stores, v \in RaceIds, a \in TrackArgs :
          TrackBegin(s, v, a.timestamp, a.percentage)
    \/ \E s \in Stores, ok \in BOOLEAN : SaveOpen(s, ok)
    \/ \E s \in Stores, ok \in BOOLEAN : SaveWrite(s, ok)
    \/ Tick

RaceSpec == RaceInit /\ [][RaceNext]_vars

\* both stores have returned from a track_video call that found its file
\* and wrote the tracker file without error
BothFinished ==
    \A s \in Stores :
        /\ pc[s] = "ready"
        /\ calls[s] >= 1
        /\ trk[s].found
        /\ trk[s].wr = "ok"

OtherStore(s) == CHOOSE o \in Stores : o # s

\* C10 (as claimed): after both stores have finished tracking, each its
\* own record, the tracker file holds only the record of the store that
\* wrote last, no error was reported, and the other store's in-memory
\* mapping differs from the document on disk.
C10_LastWriterWins ==
    (BothFinished /\ history[1] # history[2])
    => /\ HoldsExactly(disk, history[lastWriter])
       /\ Len(history[lastWriter].pairs) = 1
       /\ out[1] = {} /\ out[2] = {}
       /\ ~InSync(OtherStore(lastWriter), disk, history)

\* C10 (amended): after both stores have finished, no error was reported
\* and the file begins with the one-entry document of the store that wrote
\* last, nothing of the other's being merged into it.  The file is exactly
\* that document, and then the other store's mapping differs from it
\* whenever the two stores' records differ; or, when the other store's
\* longer document was written between the last writer's open and write,
\* the end of that document is left behind it, the file is no valid JSON
\* and decodes, as load_history decodes it, to neither store's mapping.
C10_LastWriteOverlays ==
    BothFinished
    => LET w == lastWriter
           o == OtherStore(lastWriter)
       IN  /\ out[1] = {} /\ out[2] = {}
           /\ disk.exists /\ disk.enc = "json" /\ disk.obj
           /\ disk.pairs = history[w].pairs
           /\ Len(disk.pairs) = 1
           /\ disk.len \in {TextLen(history[w]), TextLen(history[o])}
           /\ disk.len >= TextLen(history[w])
           /\ disk.len = TextLen(history[w])
              => /\ InSync(w, disk, history)
                 /\ history[o] # history[w] => ~InSync(o, disk, history)
           /\ disk.len > TextLen(history[w])
              => /\ load_history(disk).value = EmptyHistory
                 /\ ~InSync(w, disk, history)
                 /\ ~InSync(o, disk, history)

\* C10 witness: the stores tracked different videos, store 2 wrote last,
\* the file is store 2's document and store 1 is out of step with it.
C10_Witness ==
    /\ BothFinished
    /\ lastWriter = 2
    /\ history[1].pairs[1][1] = NameA
    /\ history[2].pairs[1][1] = NameB
    /\ HoldsExactly(disk, history[2])
    /\ ~InSync(1, disk, history)

=============================================================================
